---- MODULE Spec2Model ----
(***************************************************************************)
(* RaceCraft Live frontend: the sample-data generators (lib/sample-data),  *)
(* the ApiClient (lib/api-client.ts), the data hooks                       *)
(* (hooks/use-race-data.ts) and the dashboard page that drives them.       *)
(*                                                                         *)
(* Units.  Math.random() is a value r/1000 with r in RandomValues.         *)
(* Lap times and deltas of the pace generators are in 1e-4 s, confidences  *)
(* in 1e-3, attack probabilities in 1e-5, gaps in 1e-3 s, closing rates in *)
(* 1e-4 s/lap, the degradation level in fifteenths, delta_seconds of the   *)
(* degradation curve in sixtieths of a second.                             *)
(***************************************************************************)
EXTENDS Integers, Sequences, FiniteSets, TLC

VARIABLES
    request,            \* SpecSample: the call being answered by a sample generator
    response,           \* SpecSample: the value the generator returned, or Null
    threatLog,          \* SpecThreat: the ThreatDetectionResponses returned so far
    dataMode,           \* process.env.NEXT_PUBLIC_DATA_MODE when the module is loaded
    useSampleData,      \* ApiClient.useSampleData
    callLog,            \* SpecClient: the ApiClient methods called so far
    fetchLog,           \* SpecClient: the endpoints handed to fetch() so far
    mounted,            \* DashboardPage is mounted (its first effects have run)
    raceState,          \* DashboardPage: useState<RaceState>
    autoRefreshEnabled, \* DashboardPage: useState(true)
    hook,               \* per data hook: its data, loading and error state
    issued,             \* per data hook: the number of fetchData calls made so far
    pending,            \* per data hook: the fetchData calls awaiting their response
    failed,             \* the number of requests that have failed so far
    unhandled,          \* rejections that escaped a fetchData call
    wsPhase,            \* useWebSocket: where the component using the hook stands
    reconnectOption,    \* useWebSocket: options.reconnect of the latest render
    sockets,            \* useWebSocket: every WebSocket created so far
    wsCurrent,          \* useWebSocket: ws.current, an index into sockets, 0 for null
    reconnectTimers,    \* useWebSocket: the reconnect timers set and not yet fired
    reconnectTimeout,   \* useWebSocket: reconnectTimeout.current, 0 for null
    isConnected,        \* useWebSocket: useState(false)
    arPhase,            \* useAutoRefresh: where the component using the hook stands
    arEnabled,          \* useAutoRefresh: enabled of the latest render
    arCallback,         \* useAutoRefresh: callback of the latest render, by identity
    arInterval,         \* useAutoRefresh: interval of the latest render
    arTimers,           \* useAutoRefresh: the interval timers set and not cleared
    arCleanup,          \* useAutoRefresh: the timer the effect's cleanup clears, 0 for no cleanup
    arRuns,             \* useAutoRefresh: the number of times the effect has run
    arCalls,            \* useAutoRefresh: the callbacks invoked so far
    lzPhase,            \* LazyLoad: where the component stands
    once,               \* LazyLoad: the once prop
    intersecting,       \* LazyLoad: the container intersects the viewport (with its margin) now
    observing,          \* LazyLoad: the observer observes the container
    previousEntry,      \* LazyLoad: isIntersecting of the entry the observer queued last, or "none"
    queuedEntries,      \* LazyLoad: the entries queued for the next call of the observer callback
    isVisible,          \* LazyLoad: useState(false)
    everIntersected,    \* LazyLoad: some entry handed to the callback was intersecting
    latestEntry,        \* LazyLoad: isIntersecting of the last entry handed to the callback
    connectionStatus,   \* useRaceWebSocket: connectionStatus as of the last render
    queuedConnected,    \* useWebSocket: isConnected after the state updates queued
    queuedStatus,       \* useRaceWebSocket: connectionStatus after the updates queued
    messageQueued,      \* useWebSocket: a setLastMessage is queued for the next render
    lastMessage,        \* useWebSocket: the type of the last message parsed, or "none"
    raceData,           \* useRaceWebSocket: the last race_update stored, or "none"
    lastEvent           \* the last socket or timer event the mounted hook handled

vars == <<request, response, threatLog, dataMode, useSampleData, callLog, fetchLog,
          mounted, raceState, autoRefreshEnabled, hook, issued, pending, failed, unhandled,
          wsPhase, reconnectOption, sockets, wsCurrent, reconnectTimers, reconnectTimeout,
          isConnected,
          arPhase, arEnabled, arCallback, arInterval, arTimers, arCleanup, arRuns, arCalls,
          lzPhase, once, intersecting, observing, previousEntry, queuedEntries, isVisible,
          everIntersected, latestEntry,
          connectionStatus, queuedConnected, queuedStatus, messageQueued,
          lastMessage, raceData, lastEvent>>

sampleVars == <<request, response>>
threatVars == <<threatLog>>
clientVars == <<dataMode, useSampleData, callLog, fetchLog>>
pageVars   == <<mounted, raceState, autoRefreshEnabled, hook, issued, pending, failed, unhandled>>
socketVars == <<wsPhase, reconnectOption, sockets, wsCurrent, reconnectTimers, reconnectTimeout,
                isConnected>>
refreshVars == <<arPhase, arEnabled, arCallback, arInterval, arTimers, arCleanup, arRuns, arCalls>>
lazyVars == <<lzPhase, once, intersecting, observing, previousEntry, queuedEntries, isVisible,
              everIntersected, latestEntry>>
raceVars == <<connectionStatus, queuedConnected, queuedStatus, messageQueued,
              lastMessage, raceData, lastEvent>>

----------------------------------------------------------------------------
(* Bounds *)

RandSteps == 2          \* Math.random() is sampled at RandSteps points and at its supremum
MaxLap == 31            \* largest current_lap / total_laps of a request
MaxCalls == 3           \* ApiClient calls of one run of SpecClient
MaxIssued == 2          \* fetchData calls per hook in one run of Spec
MaxInFlight == 5        \* requests of the page awaiting a response at one time
MaxFailed == 1          \* requests that fail in one run of Spec
MaxSockets == 3         \* WebSockets one useWebSocket instance creates in one run
MaxRuns == 3            \* runs of the effect of useAutoRefresh in one run
MaxTicks == 2           \* callbacks invoked by useAutoRefresh timers in one run
MaxQueued == 2          \* entries an IntersectionObserver holds for one call of its callback
MaxRaceSockets == 4     \* WebSockets one useRaceWebSocket instance creates in one run

----------------------------------------------------------------------------
(* Helpers *)

Null == [null |-> TRUE]

Max(a, b) == IF a >= b THEN a ELSE b
Min(a, b) == IF a <= b THEN a ELSE b

\* Math.random(): a value in [0, 1), in thousandths
RandomValues == {(k * 1000) \div RandSteps : k \in 0..(RandSteps - 1)} \cup {999}

\* Math.floor(Math.random() * n)
FloorRandom(r, n) == (r * n) \div 1000

SAMPLE_VEHICLES == {"GR86-002-000", "GR86-004-78", "GR86-007-13", "GR86-010-25", "GR86-015-42"}

\* the cars requests are made for: the dashboard's car and its rival
Cars == {"GR86-002-000", "GR86-004-78"}

----------------------------------------------------------------------------
(* lib/sample-data: the generators, as functions of their arguments and of *)
(* the values Math.random() returns to them                                *)

ForecastLength == 5

\* the slip of adding the horizon term instead of subtracting it
PredictionConfidenceGrowing(i) == Max(600, 900 + i * 60)

PredictionConfidence(i) == Max(600, 900 - i * 60)

\* the slip of numbering the first prediction with the current lap
PredictionLapFromCurrent(currentLap, i) == currentLap + i

PredictionLap(currentLap, i) == currentLap + i + 1

\* rNoise[i + 1] is the noise draw of prediction i
getSamplePaceForecast(carId, currentLap, rBase, rTrend, rNoise) ==
    LET baseLapTime == 925000 + rBase * 20
        trend == IF rTrend > 500 THEN "degrading" ELSE "stable"
        Prediction(i) ==
            LET degradation == IF trend = "degrading" THEN i * 1500 ELSE i * 500
                noise == (rNoise[i + 1] - 500) * 2
            IN  [lap_number |-> PredictionLap(currentLap, i),
                 predicted_time |-> baseLapTime + degradation + noise,
                 delta |-> degradation + noise,
                 confidence |-> PredictionConfidence(i)]
    IN  [car_id |-> carId,
         predictions |-> [j \in 1..ForecastLength |-> Prediction(j - 1)],
         current_pace |-> baseLapTime,
         trend |-> trend]

getSampleCurrentPace(carId, rBest, rCurrent) ==
    LET bestLap == 918000 + rBest * 15
        currentLap == bestLap + rCurrent * 12
    IN  [car_id |-> carId,
         current_lap_time |-> currentLap,
         sector_times |-> <<285000, 328000, 309000>>,
         best_lap |-> bestLap,
         average_lap |-> bestLap + 8000]

StintInterval == 15

CurveLength == 10

\* the slip of never resetting the stint
StintLengthNoReset(currentLap) == IF currentLap = 0 THEN 1 ELSE currentLap

\* currentLap % 15 || 1
StintLength(currentLap) ==
    IF currentLap % StintInterval = 0 THEN 1 ELSE currentLap % StintInterval

\* Math.min(stintLength / 15, 1), in fifteenths
DegradationLevel(currentLap) == Min(StintLength(currentLap), StintInterval)

CurveLap(currentLap, n, i) == currentLap - n + i + 1

getSampleDegradation(carId, currentLap) ==
    LET stintLength == StintLength(currentLap)
        degradationLevel == DegradationLevel(currentLap)
        n == Min(CurveLength, stintLength)
        Point(i) == [lap |-> CurveLap(currentLap, n, i),
                     delta_seconds |-> i * degradationLevel,
                     severity |-> Min(i, 15)]
        grip == IF 2 * degradationLevel > 15
                THEN <<[cause_type |-> "lateral_grip_loss", confidence |-> 750,
                        indicators |-> <<"Reduced lateral G in corners",
                                         "Understeering detected">>]>>
                ELSE <<>>
        steer == IF 10 * degradationLevel > 105
                 THEN <<[cause_type |-> "understeer", confidence |-> 680,
                         indicators |-> <<"Increased steering angle",
                                          "Compensation for grip loss">>]>>
                 ELSE <<>>
        stintHealth == IF 10 * degradationLevel < 45 THEN "optimal"
                       ELSE IF 10 * degradationLevel < 90 THEN "degrading"
                       ELSE "critical"
    IN  [car_id |-> carId,
         degradation_curve |-> [j \in 1..n |-> Point(j - 1)],
         degradation_rate |-> degradationLevel,
         primary_causes |-> grip \o steer,
         stint_health |-> stintHealth,
         recommended_action |-> IF stintHealth = "critical"
                                THEN "Consider pit window in next 2-3 laps"
                                ELSE "Monitor closely"]

getSampleCurrentDegradation(carId, rLaps) ==
    LET lapsOnTires == FloorRandom(rLaps, 15) + 1
        degradation == Min(lapsOnTires, 15)
    IN  [car_id |-> carId,
         current_degradation |-> degradation,
         laps_on_tires |-> lapsOnTires,
         estimated_laps_remaining |-> Max(0, 15 - lapsOnTires),
         grip_level |-> 150 - degradation * 3]

getSamplePitWindow(carId, currentLap, totalLaps, rOptimal, rLoss, rUndercut, rHigh, rMedium) ==
    LET optimalLap == (totalLaps \div 2) + FloorRandom(rOptimal, 3)
        windowStart == Max(currentLap + 2, optimalLap - 2)
        windowEnd == Min(totalLaps - 3, optimalLap + 2)
    IN  [car_id |-> carId,
         recommended_windows |->
            <<[start_lap |-> windowStart,
               end_lap |-> windowEnd,
               confidence |-> 850,
               expected_position_loss |-> FloorRandom(rLoss, 2) + 1,
               undercut_opportunity |-> rUndercut * 15,
               traffic_risk |-> IF rHigh > 700 THEN "high"
                                ELSE IF rMedium > 400 THEN "medium" ELSE "low"]>>,
         optimal_lap |-> optimalLap,
         reason |-> IF 10 * currentLap < 4 * totalLaps THEN "early"
                    ELSE IF 10 * currentLap > 6 * totalLaps THEN "late"
                    ELSE "standard"]

\* the slip of returning a percentage
AttackProbabilityPercent(rProb) == 100 * (65000 + rProb * 25)

AttackProbability(rProb) == 65000 + rProb * 25

getSampleThreatDetection(carId, currentLap, rHas, rGap, rClosing, rProb, rLaps) ==
    LET hasThreats == rHas > 300
        threats == IF hasThreats
                   THEN <<[rival_car_id |-> "GR86-004-78",
                           gap_seconds |-> 1200 + rGap * 2,
                           closing_rate |-> rClosing * 3,
                           attack_probability |-> AttackProbability(rProb),
                           laps_until_attack |-> FloorRandom(rLaps, 3) + 2]>>
                   ELSE <<>>
        overallThreatLevel == IF ~hasThreats THEN "low"
                              ELSE IF threats[1].gap_seconds < 1500 THEN "high"
                              ELSE IF threats[1].gap_seconds < 3000 THEN "medium"
                              ELSE "low"
    IN  [car_id |-> carId,
         threats |-> threats,
         overall_threat_level |-> overallThreatLevel]

----------------------------------------------------------------------------
(* States of the parts a specification leaves alone *)

InitialRaceState == [carId |-> "GR86-002-000", sessionId |-> "R1", currentLap |-> 12,
                     currentPosition |-> 5, totalLaps |-> 27]

Hooks == {"paceForecast", "degradation", "pitWindow", "threat", "currentPace"}

SampleIdle == request = Null /\ response = Null

ThreatIdle == threatLog = <<>>

ClientIdle == callLog = <<>> /\ fetchLog = <<>>

NoError == [message |-> "none"]

\* useState(null), useState(false), useState(null)
HookInitial == [data |-> Null, loading |-> FALSE, error |-> NoError]

SocketIdle ==
    /\ wsPhase = "init"
    /\ reconnectOption = TRUE
    /\ sockets = <<>>
    /\ wsCurrent = 0
    /\ reconnectTimers = {}
    /\ reconnectTimeout = 0
    /\ isConnected = FALSE

RefreshIdle ==
    /\ arPhase = "init"
    /\ arEnabled = TRUE
    /\ arCallback = "refetch1"
    /\ arInterval = 5000
    /\ arTimers = {}
    /\ arCleanup = 0
    /\ arRuns = 0
    /\ arCalls = <<>>

LazyIdle ==
    /\ lzPhase = "init"
    /\ once = TRUE
    /\ intersecting = FALSE
    /\ observing = FALSE
    /\ previousEntry = "none"
    /\ queuedEntries = <<>>
    /\ isVisible = FALSE
    /\ everIntersected = FALSE
    /\ latestEntry = "none"

RaceIdle ==
    /\ connectionStatus = "disconnected"
    /\ queuedConnected = FALSE
    /\ queuedStatus = "disconnected"
    /\ messageQueued = FALSE
    /\ lastMessage = "none"
    /\ raceData = "none"
    /\ lastEvent = "none"

PageIdle ==
    /\ mounted = FALSE
    /\ raceState = InitialRaceState
    /\ autoRefreshEnabled = TRUE
    /\ hook = [h \in Hooks |-> HookInitial]
    /\ issued = [h \in Hooks |-> 0]
    /\ pending = [h \in Hooks |-> {}]
    /\ failed = 0
    /\ unhandled = 0

----------------------------------------------------------------------------
(* SpecSample: one call answered by a sample generator.  The request is    *)
(* what ApiClient passes on in sample mode (api-client.ts 69-72, 80-83,    *)
(* 91-94, 104-107, 117-120).                                               *)

LapRequests(m) ==
    {[method |-> m, car_id |-> c, current_lap |-> l] : c \in Cars, l \in 0..MaxLap}

\* PaceForecastRequest: laps_ahead is the horizon asked for (usePaceForecast
\* passes its lapsAhead argument, 5 unless the caller gives another); the
\* shortest horizon and the default one
LapsAhead == {1, 5}

ForecastRequests ==
    {[method |-> "getPaceForecast", car_id |-> c, current_lap |-> l, laps_ahead |-> n] :
        c \in Cars, l \in 0..MaxLap, n \in LapsAhead}

CarRequests(m) == {[method |-> m, car_id |-> c] : c \in Cars}

PitRequests ==
    {[method |-> "getPitWindowRecommendation", car_id |-> c,
      current_lap |-> l, total_laps |-> t] :
        c \in Cars, l \in 0..MaxLap, t \in 1..MaxLap}

SampleRequests ==
    ForecastRequests \cup LapRequests("getDegradationAnalysis")
        \cup CarRequests("getCurrentPace") \cup CarRequests("getCurrentDegradation")
        \cup {q \in PitRequests : q.current_lap <= q.total_laps}

Pending(m) == request # Null /\ request.method = m /\ response = Null

SamplePaceForecast ==
    /\ Pending("getPaceForecast")
    /\ \E rBase \in RandomValues, rTrend \in RandomValues,
          rNoise \in [1..ForecastLength -> RandomValues] :
            response' = getSamplePaceForecast(request.car_id, request.current_lap,
                                              rBase, rTrend, rNoise)
    /\ UNCHANGED <<request, threatVars, clientVars, pageVars, socketVars, refreshVars,
                   lazyVars, raceVars>>

SampleCurrentPace ==
    /\ Pending("getCurrentPace")
    /\ \E rBest \in RandomValues, rCurrent \in RandomValues :
            response' = getSampleCurrentPace(request.car_id, rBest, rCurrent)
    /\ UNCHANGED <<request, threatVars, clientVars, pageVars, socketVars, refreshVars,
                   lazyVars, raceVars>>

SampleDegradation ==
    /\ Pending("getDegradationAnalysis")
    /\ response' = getSampleDegradation(request.car_id, request.current_lap)
    /\ UNCHANGED <<request, threatVars, clientVars, pageVars, socketVars, refreshVars,
                   lazyVars, raceVars>>

SampleCurrentDegradation ==
    /\ Pending("getCurrentDegradation")
    /\ \E rLaps \in RandomValues :
            response' = getSampleCurrentDegradation(request.car_id, rLaps)
    /\ UNCHANGED <<request, threatVars, clientVars, pageVars, socketVars, refreshVars,
                   lazyVars, raceVars>>

SamplePitWindow ==
    /\ Pending("getPitWindowRecommendation")
    /\ \E rOptimal \in RandomValues, rLoss \in RandomValues, rUndercut \in RandomValues,
          rHigh \in RandomValues, rMedium \in RandomValues :
            response' = getSamplePitWindow(request.car_id, request.current_lap,
                                           request.total_laps,
                                           rOptimal, rLoss, rUndercut, rHigh, rMedium)
    /\ UNCHANGED <<request, threatVars, clientVars, pageVars, socketVars, refreshVars,
                   lazyVars, raceVars>>

InitSample ==
    /\ request \in SampleRequests
    /\ response = Null
    /\ dataMode = "sample"
    /\ useSampleData = TRUE
    /\ ThreatIdle /\ ClientIdle /\ PageIdle /\ SocketIdle /\ RefreshIdle /\ LazyIdle /\ RaceIdle

NextSample ==
    \/ SamplePaceForecast
    \/ SampleCurrentPace
    \/ SampleDegradation
    \/ SampleCurrentDegradation
    \/ SamplePitWindow

SpecSample == InitSample /\ [][NextSample]_vars

----------------------------------------------------------------------------
(* SpecThreat: getSampleThreatDetection called twice, the two responses    *)
(* kept side by side so that they can be compared.                         *)

SampleThreatDetection ==
    /\ Len(threatLog) < 2
    /\ \E l \in {0, MaxLap}, rHas \in RandomValues, rGap \in RandomValues,
          rClosing \in RandomValues, rProb \in RandomValues, rLaps \in RandomValues :
            threatLog' = Append(threatLog,
                getSampleThreatDetection("GR86-002-000", l, rHas, rGap, rClosing, rProb, rLaps))
    /\ UNCHANGED <<sampleVars, clientVars, pageVars, socketVars, refreshVars, lazyVars,
                   raceVars>>

InitThreat ==
    /\ threatLog = <<>>
    /\ dataMode = "sample"
    /\ useSampleData = TRUE
    /\ SampleIdle /\ ClientIdle /\ PageIdle /\ SocketIdle /\ RefreshIdle /\ LazyIdle /\ RaceIdle

NextThreat == SampleThreatDetection

SpecThreat == InitThreat /\ [][NextThreat]_vars

----------------------------------------------------------------------------
(* lib/api-client.ts: the ApiClient singleton *)

\* process.env.NEXT_PUBLIC_DATA_MODE is not set
Unset == "(unset)"

EnvValues == {Unset, "", "sample", "backend", "SAMPLE", "real"}

\* the slip of defaulting to the sample mode
DataModeDefaultSample(env) == IF env = Unset \/ env = "" THEN "sample" ELSE env

\* const DATA_MODE = process.env.NEXT_PUBLIC_DATA_MODE || "backend"
DATA_MODE(env) == IF env = Unset \/ env = "" THEN "backend" ELSE env

\* the method and the path handed to fetch() by each ApiClient method;
\* request() adds no method of its own, so fetch() defaults to GET
Endpoint(m, arg) ==
    CASE m = "getPaceForecast" -> [method |-> "POST", path |-> <<"/api/pace/forecast">>]
      [] m = "getCurrentPace" -> [method |-> "GET", path |-> <<"/api/pace/current/", arg>>]
      [] m = "getDegradationAnalysis" ->
            [method |-> "POST", path |-> <<"/api/degradation/analyze">>]
      [] m = "getCurrentDegradation" ->
            [method |-> "GET", path |-> <<"/api/degradation/current/", arg>>]
      [] m = "getPitWindowRecommendation" ->
            [method |-> "POST", path |-> <<"/api/pit/recommend">>]
      [] m = "getThreatAnalysis" -> [method |-> "POST", path |-> <<"/api/threat/analyze">>]
      [] m = "getAvailableVehicles" ->
            [method |-> "GET", path |-> <<"/api/vehicles/list/", arg>>]
      [] m = "healthCheck" -> [method |-> "GET", path |-> <<"/health">>]

\* the common shape of the methods: if (this.useSampleData) { ...sample... }
\* return this.request(endpoint)
ApiCall(m, arg) ==
    /\ Len(callLog) < MaxCalls
    /\ callLog' = Append(callLog, m)
    /\ fetchLog' = IF useSampleData THEN fetchLog ELSE Append(fetchLog, Endpoint(m, arg))
    /\ UNCHANGED <<dataMode, useSampleData, sampleVars, threatVars, pageVars, socketVars,
                   refreshVars, lazyVars, raceVars>>

CallGetPaceForecast == ApiCall("getPaceForecast", "")

CallGetCurrentPace == \E c \in Cars : ApiCall("getCurrentPace", c)

CallGetDegradationAnalysis == ApiCall("getDegradationAnalysis", "")

CallGetCurrentDegradation == \E c \in Cars : ApiCall("getCurrentDegradation", c)

CallGetPitWindowRecommendation == ApiCall("getPitWindowRecommendation", "")

CallGetThreatAnalysis == ApiCall("getThreatAnalysis", "")

CallGetAvailableVehicles == ApiCall("getAvailableVehicles", "R1")

CallHealthCheck == ApiCall("healthCheck", "")

\* module load and new ApiClient()
InitClient ==
    /\ dataMode \in EnvValues
    /\ useSampleData = (DATA_MODE(dataMode) = "sample")
    /\ callLog = <<>>
    /\ fetchLog = <<>>
    /\ SampleIdle /\ ThreatIdle /\ PageIdle /\ SocketIdle /\ RefreshIdle /\ LazyIdle /\ RaceIdle

NextClient ==
    \/ CallGetPaceForecast
    \/ CallGetCurrentPace
    \/ CallGetDegradationAnalysis
    \/ CallGetCurrentDegradation
    \/ CallGetPitWindowRecommendation
    \/ CallGetThreatAnalysis
    \/ CallGetAvailableVehicles
    \/ CallHealthCheck

SpecClient == InitClient /\ [][NextClient]_vars

\* C8: when NEXT_PUBLIC_DATA_MODE is "sample" no ApiClient method ever issues a
\* network request, in any sequence of calls; in every other case (unset or any
\* other value) every call issues a request to the backend; the mode never
\* changes after construction.
SampleModeNeedsNoBackend ==
    /\ [](IF dataMode = "sample"
          THEN fetchLog = <<>>
          ELSE /\ Len(fetchLog) = Len(callLog)
               /\ \A i \in 1..Len(callLog) :
                    \E arg \in Cars \cup {"", "R1"} : fetchLog[i] = Endpoint(callLog[i], arg))
    /\ [][useSampleData' = useSampleData /\ dataMode' = dataMode]_vars

SampleModeWitness ==
    /\ dataMode = "sample"
    /\ Len(callLog) = 3
    /\ callLog[1] = "getPaceForecast"
    /\ callLog[2] = "healthCheck"
    /\ callLog[3] = "getAvailableVehicles"
    /\ fetchLog = <<>>

\* the endpoints listed under "API Endpoints" in the backend README, {car_id}
\* standing for any car
BackendReadmeEndpoints ==
    {[method |-> "POST", path |-> <<"/api/pace/forecast">>],
     [method |-> "POST", path |-> <<"/api/degradation/analyze">>],
     [method |-> "POST", path |-> <<"/api/pit/optimize">>],
     [method |-> "POST", path |-> <<"/api/threat/detect">>]}
        \cup {[method |-> "GET", path |-> <<"/api/current/pace/", c>>] : c \in Cars}
        \cup {[method |-> "GET", path |-> <<"/api/current/degradation/", c>>] : c \in Cars}

\* the ApiClient methods that make up the race-data protocol
ProtocolMethods ==
    {"getPaceForecast", "getCurrentPace", "getDegradationAnalysis",
     "getCurrentDegradation", "getPitWindowRecommendation", "getThreatAnalysis"}

\* C16: every HTTP method and path that ApiClient requests in backend mode for
\* pace forecast, current pace, degradation analysis, current degradation, pit
\* window and threat analysis is an endpoint documented in the backend README.
ClientRequestsDocumentedEndpoints ==
    ~useSampleData =>
        \A i \in 1..Len(fetchLog) :
            callLog[i] \in ProtocolMethods => fetchLog[i] \in BackendReadmeEndpoints

----------------------------------------------------------------------------
(* hooks/use-race-data.ts and the DashboardPage that uses the hooks.       *)
(* A fetchData call is its number within the hook and the current_lap of   *)
(* its request.                                                            *)

\* the hooks whose fetchData has raceState among its dependencies
RaceStateHooks == {"paceForecast", "degradation", "pitWindow", "threat"}

\* why a request can fail: fetch() rejects, or the status is not OK
Failures == {"Failed to fetch", "API Error"}

\* setLoading(true); setError(null)
FetchStart(hs) == [hs EXCEPT !.loading = TRUE, !.error = NoError]

\* setData(response); finally setLoading(false)
FetchFulfilled(hs, resp) == [hs EXCEPT !.data = resp, !.loading = FALSE]

\* the slip of dropping the data in the catch clause
FetchRejectedDropsData(hs, err) ==
    [hs EXCEPT !.data = Null, !.error = err, !.loading = FALSE]

\* catch (err) { setError(err) } finally { setLoading(false) }
FetchRejected(hs, err) == [hs EXCEPT !.error = err, !.loading = FALSE]

PendingCount == Cardinality({p \in Hooks \X (1..MaxIssued) :
                                \E c \in pending[p[1]] : c.query = p[2]})

\* fetchData() of every hook in H, up to its await; lap is the current_lap of
\* the raceState the callback was created with
FetchData(H, lap) ==
    /\ \A h \in H : issued[h] < MaxIssued
    /\ PendingCount + Cardinality(H) <= MaxInFlight
    /\ hook' = [h \in Hooks |-> IF h \in H THEN FetchStart(hook[h]) ELSE hook[h]]
    /\ issued' = [h \in Hooks |-> IF h \in H THEN issued[h] + 1 ELSE issued[h]]
    /\ pending' = [h \in Hooks |->
            IF h \in H
            THEN pending[h] \cup {[query |-> issued[h] + 1, current_lap |-> lap]}
            ELSE pending[h]]

\* first render: useEffect(() => { fetchData() }, [fetchData]) of each hook
Mount ==
    /\ ~mounted
    /\ mounted' = TRUE
    /\ FetchData(Hooks, raceState.currentLap)
    /\ UNCHANGED <<raceState, autoRefreshEnabled, failed, unhandled,
                   sampleVars, threatVars, clientVars,
                   socketVars, refreshVars, lazyVars, raceVars>>

\* the Next Lap button: setRaceState makes a new raceState object, so fetchData
\* of the hooks that depend on raceState is recreated and their effect runs
\* again; useCurrentPace depends on carId alone
HandleNextLap ==
    /\ mounted
    /\ raceState.currentLap < raceState.totalLaps
    /\ raceState' = [raceState EXCEPT
            !.currentLap = Min(raceState.currentLap + 1, raceState.totalLaps)]
    /\ FetchData(RaceStateHooks, raceState'.currentLap)
    /\ UNCHANGED <<mounted, autoRefreshEnabled, failed, unhandled,
                   sampleVars, threatVars, clientVars,
                   socketVars, refreshVars, lazyVars, raceVars>>

\* the Refresh button
HandleRefreshAll ==
    /\ mounted
    /\ FetchData(Hooks, raceState.currentLap)
    /\ UNCHANGED <<mounted, raceState, autoRefreshEnabled, failed, unhandled,
                   sampleVars, threatVars, clientVars,
                   socketVars, refreshVars, lazyVars, raceVars>>

\* the interval timer of useAutoRefresh fires
AutoRefreshTick ==
    /\ mounted
    /\ autoRefreshEnabled
    /\ FetchData(Hooks, raceState.currentLap)
    /\ UNCHANGED <<mounted, raceState, autoRefreshEnabled, failed, unhandled,
                   sampleVars, threatVars, clientVars,
                   socketVars, refreshVars, lazyVars, raceVars>>

\* the Pause / Resume button
ToggleAutoRefresh ==
    /\ mounted
    /\ autoRefreshEnabled' = ~autoRefreshEnabled
    /\ UNCHANGED <<mounted, raceState, hook, issued, pending, failed, unhandled,
                   sampleVars, threatVars, clientVars,
                   socketVars, refreshVars, lazyVars, raceVars>>

\* the awaited ApiClient call of fetchData call c of hook h resolves; the
\* response is represented by the call it answers
ResponseArrives(h, c) ==
    /\ c \in pending[h]
    /\ pending' = [pending EXCEPT ![h] = pending[h] \ {c}]
    /\ hook' = [hook EXCEPT ![h] = FetchFulfilled(hook[h], c)]
    /\ UNCHANGED <<mounted, raceState, autoRefreshEnabled, issued, failed, unhandled,
                   sampleVars, threatVars, clientVars,
                   socketVars, refreshVars, lazyVars, raceVars>>

\* the awaited ApiClient call rejects with a new Error: only request() can
\* throw, the sample branch of the ApiClient methods cannot; the catch clause
\* takes the error, so nothing escapes fetchData
RequestFails(h, c) ==
    /\ c \in pending[h]
    /\ ~useSampleData
    /\ failed < MaxFailed
    /\ failed' = failed + 1
    /\ pending' = [pending EXCEPT ![h] = pending[h] \ {c}]
    /\ \E kind \in Failures :
        hook' = [hook EXCEPT ![h] =
                    FetchRejected(hook[h], [message |-> kind, query |-> c.query])]
    /\ UNCHANGED <<mounted, raceState, autoRefreshEnabled, issued, unhandled,
                   sampleVars, threatVars, clientVars,
                   socketVars, refreshVars, lazyVars, raceVars>>

Init ==
    /\ dataMode \in {"sample", "backend"}
    /\ useSampleData = (DATA_MODE(dataMode) = "sample")
    /\ PageIdle
    /\ callLog = <<>> /\ fetchLog = <<>>
    /\ SampleIdle /\ ThreatIdle /\ SocketIdle /\ RefreshIdle /\ LazyIdle /\ RaceIdle

Next ==
    \/ Mount
    \/ HandleNextLap
    \/ HandleRefreshAll
    \/ AutoRefreshTick
    \/ ToggleAutoRefresh
    \/ \E h \in Hooks : \E c \in pending[h] : ResponseArrives(h, c)
    \/ \E h \in Hooks : \E c \in pending[h] : RequestFails(h, c)

Spec == Init /\ [][Next]_vars

----------------------------------------------------------------------------
(* hooks/use-websocket.ts: one instance of useWebSocket.  A socket is its  *)
(* readyState, the reconnect option its handlers closed over and the       *)
(* caller of the connect() that created it.  A reconnect timer is named by *)
(* the socket whose onclose set it.                                        *)

ReadyStates == {"CONNECTING", "OPEN", "CLOSING", "CLOSED"}

\* a socket that is connecting or open
Live(s) == sockets[s].readyState \in {"CONNECTING", "OPEN"}

\* new WebSocket(url) with the handlers of connect attached
NewSocket(reconnect, via) ==
    [readyState |-> "CONNECTING", reconnect |-> reconnect, via |-> via]

\* ws.current.close(): a connecting or open socket starts closing, its
\* handlers still attached; on a closing or closed socket it does nothing
CloseSocket(socks, cur) ==
    IF cur # 0 /\ socks[cur].readyState \in {"CONNECTING", "OPEN"}
    THEN [socks EXCEPT ![cur].readyState = "CLOSING"]
    ELSE socks

CloseCurrent == CloseSocket(sockets, wsCurrent)

\* clearTimeout(reconnectTimeout.current); the ref keeps the timer's id
ClearReconnectTimeout == reconnectTimers \ {reconnectTimeout}

\* setIsConnected(v): React drops the update of an unmounted component
SetIsConnected(phase, v) == isConnected' = IF phase = "unmounted" THEN isConnected ELSE v

\* the slip of never scheduling a reconnection
NeverReconnect(reconnect) == FALSE

\* if (reconnect) { reconnectTimeout.current = setTimeout(...) }
ReconnectScheduled(reconnect) == reconnect

\* first run of useEffect(() => { connect(); return () => disconnect() })
WsMount ==
    /\ wsPhase = "init"
    /\ wsPhase' = "active"
    /\ sockets' = Append(sockets, NewSocket(reconnectOption, "effect"))
    /\ wsCurrent' = Len(sockets) + 1
    /\ UNCHANGED <<reconnectOption, reconnectTimers, reconnectTimeout, isConnected,
                   sampleVars, threatVars, clientVars, pageVars, refreshVars, lazyVars,
                   raceVars>>

\* a render with a new url or new options makes a new connect, so the effect
\* runs again: its cleanup calls disconnect(), then the new connect() runs
WsEffectRerun(r) ==
    /\ wsPhase \in {"active", "disconnected"}
    /\ Len(sockets) < MaxSockets
    /\ wsPhase' = "active"
    /\ reconnectOption' = r
    /\ reconnectTimers' = ClearReconnectTimeout
    /\ sockets' = Append(CloseCurrent, NewSocket(r, "effect"))
    /\ wsCurrent' = Len(sockets) + 1
    /\ SetIsConnected(wsPhase, FALSE)
    /\ UNCHANGED <<reconnectTimeout, sampleVars, threatVars, clientVars, pageVars,
                   refreshVars, lazyVars, raceVars>>

\* the disconnect() the hook returns, called by the component
WsDisconnect ==
    /\ wsPhase \in {"active", "disconnected"}
    /\ wsPhase' = "disconnected"
    /\ reconnectTimers' = ClearReconnectTimeout
    /\ sockets' = CloseCurrent
    /\ wsCurrent' = 0
    /\ SetIsConnected(wsPhase, FALSE)
    /\ UNCHANGED <<reconnectOption, reconnectTimeout,
                   sampleVars, threatVars, clientVars, pageVars, refreshVars, lazyVars,
                   raceVars>>

\* the component unmounts: the cleanup of the effect calls disconnect()
WsUnmount ==
    /\ wsPhase \in {"active", "disconnected"}
    /\ wsPhase' = "unmounted"
    /\ reconnectTimers' = ClearReconnectTimeout
    /\ sockets' = CloseCurrent
    /\ wsCurrent' = 0
    /\ SetIsConnected("unmounted", FALSE)
    /\ UNCHANGED <<reconnectOption, reconnectTimeout,
                   sampleVars, threatVars, clientVars, pageVars, refreshVars, lazyVars,
                   raceVars>>

\* the open event of socket s: onopen
SocketOpens(s) ==
    /\ sockets[s].readyState = "CONNECTING"
    /\ sockets' = [sockets EXCEPT ![s].readyState = "OPEN"]
    /\ SetIsConnected(wsPhase, TRUE)
    /\ UNCHANGED <<wsPhase, reconnectOption, wsCurrent, reconnectTimers, reconnectTimeout,
                   sampleVars, threatVars, clientVars, pageVars, refreshVars, lazyVars,
                   raceVars>>

\* the close event of socket s (the connection failed, the server or the
\* network dropped it, or a close() completed): onclose
SocketCloses(s) ==
    /\ sockets[s].readyState # "CLOSED"
    /\ sockets' = [sockets EXCEPT ![s].readyState = "CLOSED"]
    /\ SetIsConnected(wsPhase, FALSE)
    /\ IF ReconnectScheduled(sockets[s].reconnect)
       THEN reconnectTimers' = reconnectTimers \cup {s} /\ reconnectTimeout' = s
       ELSE UNCHANGED <<reconnectTimers, reconnectTimeout>>
    /\ UNCHANGED <<wsPhase, reconnectOption, wsCurrent,
                   sampleVars, threatVars, clientVars, pageVars, refreshVars, lazyVars,
                   raceVars>>

\* the reconnect timer set by the onclose of socket t fires: connect(), the
\* one that onclose closed over
ReconnectTimerFires(t) ==
    /\ t \in reconnectTimers
    /\ Len(sockets) < MaxSockets
    /\ reconnectTimers' = reconnectTimers \ {t}
    /\ sockets' = Append(sockets, NewSocket(sockets[t].reconnect, "timer"))
    /\ wsCurrent' = Len(sockets) + 1
    /\ UNCHANGED <<wsPhase, reconnectOption, reconnectTimeout, isConnected,
                   sampleVars, threatVars, clientVars, pageVars, refreshVars, lazyVars,
                   raceVars>>

InitSocket ==
    /\ wsPhase = "init"
    /\ reconnectOption \in BOOLEAN
    /\ sockets = <<>>
    /\ wsCurrent = 0
    /\ reconnectTimers = {}
    /\ reconnectTimeout = 0
    /\ isConnected = FALSE
    /\ dataMode = "backend"
    /\ useSampleData = FALSE
    /\ SampleIdle /\ ThreatIdle /\ ClientIdle /\ PageIdle /\ RefreshIdle /\ LazyIdle /\ RaceIdle

NextSocket ==
    \/ WsMount
    \/ \E r \in BOOLEAN : WsEffectRerun(r)
    \/ WsDisconnect
    \/ WsUnmount
    \/ \E s \in 1..Len(sockets) : SocketOpens(s)
    \/ \E s \in 1..Len(sockets) : SocketCloses(s)
    \/ \E t \in reconnectTimers : ReconnectTimerFires(t)

SpecSocket == InitSocket /\ [][NextSocket]_vars

\* a timer that has been set and not cleared fires
SpecSocketFair ==
    SpecSocket /\ \A t \in 1..MaxSockets : WF_vars(ReconnectTimerFires(t))

----------------------------------------------------------------------------
(* hooks/use-race-data.ts: one instance of useAutoRefresh.  A timer is its *)
(* id and the callback and interval setInterval was given.                 *)

\* callbacks by identity: DashboardPage passes a new arrow function on every
\* render
Callbacks == {"refetch1", "refetch2"}

Intervals == {1000, 5000}

\* the slip of a cleanup that clears nothing
ClearNothing(timers, id) == timers

\* clearInterval(timer)
ClearInterval(timers, id) == {t \in timers : t.id # id}

\* the body of the effect: if (!enabled) return; const timer =
\* setInterval(callback, interval); return () => clearInterval(timer);
\* run with the timers left by the cleanup before it
RunRefreshEffect(timers, cb, iv, en) ==
    /\ arRuns' = arRuns + 1
    /\ IF en
       THEN /\ arTimers' = timers \cup {[id |-> arRuns + 1, callback |-> cb, interval |-> iv]}
            /\ arCleanup' = arRuns + 1
       ELSE /\ arTimers' = timers
            /\ arCleanup' = 0

\* first render
ArMount ==
    /\ arPhase = "init"
    /\ arPhase' = "mounted"
    /\ RunRefreshEffect(arTimers, arCallback, arInterval, arEnabled)
    /\ UNCHANGED <<arEnabled, arCallback, arInterval, arCalls,
                   sampleVars, threatVars, clientVars, pageVars, socketVars, lazyVars,
                   raceVars>>

\* a render with another callback, interval or enabled: the cleanup of the
\* previous run, then the effect again
ArRerender(cb, iv, en) ==
    /\ arPhase = "mounted"
    /\ arRuns < MaxRuns
    /\ <<cb, iv, en>> # <<arCallback, arInterval, arEnabled>>
    /\ arCallback' = cb
    /\ arInterval' = iv
    /\ arEnabled' = en
    /\ RunRefreshEffect(ClearInterval(arTimers, arCleanup), cb, iv, en)
    /\ UNCHANGED <<arPhase, arCalls,
                   sampleVars, threatVars, clientVars, pageVars, socketVars, lazyVars,
                   raceVars>>

\* timer t fires: the callback it was set with is invoked
ArTick(t) ==
    /\ t \in arTimers
    /\ Len(arCalls) < MaxTicks
    /\ arCalls' = Append(arCalls, t.callback)
    /\ UNCHANGED <<arPhase, arEnabled, arCallback, arInterval, arTimers, arCleanup, arRuns,
                   sampleVars, threatVars, clientVars, pageVars, socketVars, lazyVars,
                   raceVars>>

\* the component unmounts: the cleanup of the last run
ArUnmount ==
    /\ arPhase = "mounted"
    /\ arPhase' = "unmounted"
    /\ arTimers' = ClearInterval(arTimers, arCleanup)
    /\ arCleanup' = 0
    /\ UNCHANGED <<arEnabled, arCallback, arInterval, arRuns, arCalls,
                   sampleVars, threatVars, clientVars, pageVars, socketVars, lazyVars,
                   raceVars>>

InitAutoRefresh ==
    /\ arPhase = "init"
    /\ arEnabled \in BOOLEAN
    /\ arCallback \in Callbacks
    /\ arInterval \in Intervals
    /\ arTimers = {}
    /\ arCleanup = 0
    /\ arRuns = 0
    /\ arCalls = <<>>
    /\ dataMode = "backend"
    /\ useSampleData = FALSE
    /\ SampleIdle /\ ThreatIdle /\ ClientIdle /\ PageIdle /\ SocketIdle /\ LazyIdle /\ RaceIdle

NextAutoRefresh ==
    \/ ArMount
    \/ \E cb \in Callbacks, iv \in Intervals, en \in BOOLEAN : ArRerender(cb, iv, en)
    \/ \E t \in arTimers : ArTick(t)
    \/ ArUnmount

SpecAutoRefresh == InitAutoRefresh /\ [][NextAutoRefresh]_vars

\* C24: while enabled is false no interval timer exists and the callback is
\* never invoked; while enabled is true exactly one interval timer exists,
\* also after re-renders that change the callback or the interval; after
\* unmount no timer remains.
AutoRefreshOneTimer ==
    /\ []((arPhase = "mounted" /\ ~arEnabled) => arTimers = {})
    /\ []((arPhase = "mounted" /\ arEnabled) => Cardinality(arTimers) = 1)
    /\ [](arPhase = "unmounted" => arTimers = {})
    /\ [][~arEnabled => arCalls' = arCalls]_vars

AutoRefreshWitness ==
    /\ arPhase = "unmounted"
    /\ arRuns = 3
    /\ arEnabled
    /\ arCallback = "refetch2"
    /\ arInterval = 1000
    /\ arCalls = <<"refetch1", "refetch2">>
    /\ arTimers = {}

----------------------------------------------------------------------------
(* components/ui/lazy-load.tsx: one LazyLoad with fixed props.  The        *)
(* IntersectionObserver samples the container at each update of the        *)
(* rendering, queues an entry when isIntersecting differs from the entry   *)
(* before (the first sample always queues one) and hands the queued        *)
(* entries, oldest first, to the callback in one call.                     *)

\* first render: new IntersectionObserver(...); observer.observe(containerRef.current)
LazyMount ==
    /\ lzPhase = "init"
    /\ lzPhase' = "mounted"
    /\ observing' = TRUE
    /\ UNCHANGED <<once, intersecting, previousEntry, queuedEntries, isVisible,
                   everIntersected, latestEntry,
                   sampleVars, threatVars, clientVars, pageVars, socketVars, refreshVars,
                   raceVars>>

\* the page scrolls: the container enters or leaves the viewport
ViewportChanges ==
    /\ lzPhase = "mounted"
    /\ intersecting' = ~intersecting
    /\ UNCHANGED <<lzPhase, once, observing, previousEntry, queuedEntries, isVisible,
                   everIntersected, latestEntry,
                   sampleVars, threatVars, clientVars, pageVars, socketVars, refreshVars,
                   raceVars>>

\* an update of the rendering: the observer samples the container
ObserverSamples ==
    /\ observing
    /\ previousEntry # IF intersecting THEN "intersecting" ELSE "away"
    /\ Len(queuedEntries) < MaxQueued
    /\ queuedEntries' = Append(queuedEntries, intersecting)
    /\ previousEntry' = IF intersecting THEN "intersecting" ELSE "away"
    /\ UNCHANGED <<lzPhase, once, intersecting, observing, isVisible,
                   everIntersected, latestEntry,
                   sampleVars, threatVars, clientVars, pageVars, socketVars, refreshVars,
                   raceVars>>

\* setIsVisible(v): React drops the update of an unmounted component
SetIsVisible(v) == isVisible' = IF lzPhase = "unmounted" THEN isVisible ELSE v

\* the observer callback, ([entry]) => { ... }: entry is the first of the
\* entries it is handed
ObserverCallback ==
    /\ queuedEntries # <<>>
    /\ queuedEntries' = <<>>
    /\ LET entry == queuedEntries[1]
       IN  /\ IF entry THEN SetIsVisible(TRUE)
              ELSE IF ~once THEN SetIsVisible(FALSE)
              ELSE UNCHANGED isVisible
           /\ IF entry /\ once /\ lzPhase = "mounted"
              THEN observing' = FALSE /\ previousEntry' = "none"
              ELSE UNCHANGED <<observing, previousEntry>>
    /\ everIntersected' = (everIntersected \/ \E i \in 1..Len(queuedEntries) : queuedEntries[i])
    /\ latestEntry' = IF queuedEntries[Len(queuedEntries)] THEN "intersecting" ELSE "away"
    /\ UNCHANGED <<lzPhase, once, intersecting,
                   sampleVars, threatVars, clientVars, pageVars, socketVars, refreshVars,
                   raceVars>>

\* the component unmounts: React has set containerRef.current to null when
\* the cleanup runs, so the cleanup calls no unobserve; the detached
\* container intersects nothing
LazyUnmount ==
    /\ lzPhase = "mounted"
    /\ lzPhase' = "unmounted"
    /\ intersecting' = FALSE
    /\ UNCHANGED <<once, observing, previousEntry, queuedEntries, isVisible,
                   everIntersected, latestEntry,
                   sampleVars, threatVars, clientVars, pageVars, socketVars, refreshVars,
                   raceVars>>

InitLazy ==
    /\ lzPhase = "init"
    /\ once \in BOOLEAN
    /\ intersecting \in BOOLEAN
    /\ observing = FALSE
    /\ previousEntry = "none"
    /\ queuedEntries = <<>>
    /\ isVisible = FALSE
    /\ everIntersected = FALSE
    /\ latestEntry = "none"
    /\ dataMode = "backend"
    /\ useSampleData = FALSE
    /\ SampleIdle /\ ThreatIdle /\ ClientIdle /\ PageIdle /\ SocketIdle /\ RefreshIdle /\ RaceIdle

NextLazy ==
    \/ LazyMount
    \/ ViewportChanges
    \/ ObserverSamples
    \/ ObserverCallback
    \/ LazyUnmount

SpecLazy == InitLazy /\ [][NextLazy]_vars

\* C25: with once = true the children are rendered if and only if the
\* container has intersected the viewport at least once, as reported to the
\* observer callback; with once = false they are rendered if and only if the
\* latest observer entry is intersecting.
LazyLoadFollowsViewport ==
    lzPhase = "mounted" =>
        IF once THEN isVisible <=> everIntersected
                ELSE isVisible <=> latestEntry = "intersecting"

----------------------------------------------------------------------------
(* hooks/use-websocket.ts: one instance of useRaceWebSocket with fixed     *)
(* vehicleId, raceId and enabled (reconnectOption is enabled).  A handler  *)
(* of a socket or of a timer queues state updates; React renders the hook  *)
(* in a later task, so other handlers may run in between.  isConnected and *)
(* connectionStatus are the state of the last render, queuedConnected and  *)
(* queuedStatus the state the next render will have.  A render and the     *)
(* effects it runs are one step.                                           *)

\* the type of a message received: "race_update" or any other type
MessageTypes == {"race_update", "other"}

\* if (isConnected) setConnectionStatus("connected") else setConnectionStatus("connecting")
StatusFor(connected) == IF connected THEN "connected" ELSE "connecting"

\* no state update is queued that changes the state: React renders again
\* exactly when this is false
Settled ==
    /\ ~messageQueued
    /\ queuedConnected = isConnected
    /\ queuedStatus = connectionStatus

\* first render: connect(), and the effect on [isConnected] queues "connecting"
RaceMount ==
    /\ wsPhase = "init"
    /\ wsPhase' = "active"
    /\ sockets' = <<NewSocket(reconnectOption, "effect")>>
    /\ wsCurrent' = 1
    /\ queuedStatus' = StatusFor(isConnected)
    /\ UNCHANGED <<reconnectOption, reconnectTimers, reconnectTimeout, isConnected,
                   connectionStatus, queuedConnected, messageQueued, lastMessage, raceData,
                   lastEvent,
                   sampleVars, threatVars, clientVars, pageVars, refreshVars, lazyVars>>

\* a render caused by queued state updates, and its effects.  The render makes
\* new onMessage, onOpen and onClose functions, so connect is a new function
\* and the effect of useWebSocket runs again: its cleanup disconnect(), then
\* the new connect().  The effect on [isConnected] runs when isConnected
\* differs from the render before.
RaceRender ==
    /\ wsPhase = "active"
    /\ ~Settled
    /\ Len(sockets) < MaxRaceSockets
    /\ isConnected' = queuedConnected
    /\ connectionStatus' = queuedStatus
    /\ messageQueued' = FALSE
    /\ reconnectTimers' = ClearReconnectTimeout
    /\ sockets' = Append(CloseCurrent, NewSocket(reconnectOption, "effect"))
    /\ wsCurrent' = Len(sockets) + 1
    /\ queuedConnected' = FALSE
    /\ queuedStatus' = IF queuedConnected # isConnected
                       THEN StatusFor(queuedConnected)
                       ELSE queuedStatus
    /\ UNCHANGED <<wsPhase, reconnectOption, reconnectTimeout, lastMessage, raceData,
                   lastEvent,
                   sampleVars, threatVars, clientVars, pageVars, refreshVars, lazyVars>>

\* the open event of socket s: setIsConnected(true); onOpen sets "connected".
\* After the unmount the state updates do nothing.
RaceSocketOpens(s) ==
    /\ sockets[s].readyState = "CONNECTING"
    /\ sockets' = [sockets EXCEPT ![s].readyState = "OPEN"]
    /\ IF wsPhase = "active"
       THEN /\ queuedConnected' = TRUE
            /\ queuedStatus' = "connected"
            /\ lastEvent' = "open"
       ELSE UNCHANGED <<queuedConnected, queuedStatus, lastEvent>>
    /\ UNCHANGED <<wsPhase, reconnectOption, wsCurrent, reconnectTimers, reconnectTimeout,
                   isConnected, connectionStatus, messageQueued, lastMessage,
                   raceData, sampleVars, threatVars, clientVars, pageVars, refreshVars, lazyVars>>

\* the close event of socket s: setIsConnected(false); onClose sets
\* "disconnected"; the reconnect timer is set when reconnect is on
RaceSocketCloses(s) ==
    /\ sockets[s].readyState # "CLOSED"
    /\ sockets' = [sockets EXCEPT ![s].readyState = "CLOSED"]
    /\ IF ReconnectScheduled(sockets[s].reconnect)
       THEN /\ reconnectTimers' = reconnectTimers \cup {s}
            /\ reconnectTimeout' = s
       ELSE UNCHANGED <<reconnectTimers, reconnectTimeout>>
    /\ IF wsPhase = "active"
       THEN /\ queuedConnected' = FALSE
            /\ queuedStatus' = "disconnected"
            /\ lastEvent' = "close"
       ELSE UNCHANGED <<queuedConnected, queuedStatus, lastEvent>>
    /\ UNCHANGED <<wsPhase, reconnectOption, wsCurrent, isConnected, connectionStatus,
                   messageQueued, lastMessage, raceData,
                   sampleVars, threatVars, clientVars, pageVars, refreshVars, lazyVars>>

\* a message of type m arrives on socket s of the mounted hook: JSON.parse
\* makes a new object, so setLastMessage always causes a render; onMessage
\* stores a race_update
RaceMessage(s, m) ==
    /\ wsPhase = "active"
    /\ sockets[s].readyState = "OPEN"
    /\ messageQueued' = TRUE
    /\ lastMessage' = m
    /\ raceData' = IF m = "race_update" THEN m ELSE raceData
    /\ lastEvent' = "message"
    /\ UNCHANGED <<wsPhase, reconnectOption, sockets, wsCurrent, reconnectTimers,
                   reconnectTimeout, isConnected, connectionStatus,
                   queuedConnected, queuedStatus,
                   sampleVars, threatVars, clientVars, pageVars, refreshVars, lazyVars>>

\* the reconnect timer set by the onclose of socket t fires: connect() of the
\* render that made socket t
RaceTimerFires(t) ==
    /\ t \in reconnectTimers
    /\ Len(sockets) < MaxRaceSockets
    /\ reconnectTimers' = reconnectTimers \ {t}
    /\ sockets' = Append(sockets, NewSocket(sockets[t].reconnect, "timer"))
    /\ wsCurrent' = Len(sockets) + 1
    /\ lastEvent' = IF wsPhase = "active" THEN "timer" ELSE lastEvent
    /\ UNCHANGED <<wsPhase, reconnectOption, reconnectTimeout, isConnected,
                   connectionStatus, queuedConnected, queuedStatus,
                   messageQueued, lastMessage, raceData,
                   sampleVars, threatVars, clientVars, pageVars, refreshVars, lazyVars>>

\* the component unmounts: the cleanup of the effect calls disconnect()
RaceUnmount ==
    /\ wsPhase = "active"
    /\ wsPhase' = "unmounted"
    /\ reconnectTimers' = ClearReconnectTimeout
    /\ sockets' = CloseCurrent
    /\ wsCurrent' = 0
    /\ UNCHANGED <<reconnectOption, reconnectTimeout, isConnected, raceVars,
                   sampleVars, threatVars, clientVars, pageVars, refreshVars, lazyVars>>

InitRace ==
    /\ wsPhase = "init"
    /\ reconnectOption \in BOOLEAN
    /\ sockets = <<>>
    /\ wsCurrent = 0
    /\ reconnectTimers = {}
    /\ reconnectTimeout = 0
    /\ isConnected = FALSE
    /\ RaceIdle
    /\ dataMode = "backend"
    /\ useSampleData = FALSE
    /\ SampleIdle /\ ThreatIdle /\ ClientIdle /\ PageIdle /\ RefreshIdle /\ LazyIdle

NextRace ==
    \/ RaceMount
    \/ RaceRender
    \/ \E s \in 1..Len(sockets) : RaceSocketOpens(s)
    \/ \E s \in 1..Len(sockets) : RaceSocketCloses(s)
    \/ \E s \in 1..Len(sockets), m \in MessageTypes : RaceMessage(s, m)
    \/ \E t \in reconnectTimers : RaceTimerFires(t)
    \/ RaceUnmount

SpecRace == InitRace /\ [][NextRace]_vars

----------------------------------------------------------------------------
(* Properties of the sample generators *)

Answered(m) == request # Null /\ request.method = m /\ response # Null

IsForecast == Answered("getPaceForecast")
IsDegradation == Answered("getDegradationAnalysis")
IsPitWindow == Answered("getPitWindowRecommendation")

\* C1: in every pace forecast returned, for any car and any current lap, the
\* confidence at horizon k is at least the confidence at horizon k+1.
ConfidenceMonotone ==
    IsForecast =>
        \A k \in 1..(Len(response.predictions) - 1) :
            response.predictions[k].confidence >= response.predictions[k + 1].confidence

ConfidenceMonotoneWitness ==
    /\ IsForecast
    /\ request.current_lap = 12
    /\ Len(response.predictions) = ForecastLength
    /\ response.predictions[1].confidence = 900
    /\ response.predictions[ForecastLength].confidence = 660

\* the number of completed laps a steady-state forecast is based on
HistoryLaps == 5

\* the confidence a vehicle with HistoryLaps completed laps gets at horizon k
SteadyStateConfidence(k) ==
    getSamplePaceForecast(request.car_id, HistoryLaps, 0, 0,
                          [j \in 1..ForecastLength |-> 0]).predictions[k].confidence

\* C2: a forecast for a vehicle with fewer than 5 completed laps is returned,
\* and every confidence in it is below the confidence the same horizon gets
\* for a vehicle with 5 or more completed laps.
InsufficientHistoryDegraded ==
    (IsForecast /\ request.current_lap < HistoryLaps) =>
        \A k \in 1..Len(response.predictions) :
            response.predictions[k].confidence < SteadyStateConfidence(k)

\* the (response, threat) positions of the threat results returned so far
ThreatResults ==
    {p \in (1..Len(threatLog)) \X {1} : Len(threatLog[p[1]].threats) >= p[2]}

Threat(p) == threatLog[p[1]].threats[p[2]]

\* C3: of two threat results with the same gap, the one with the larger closing
\* rate never has the smaller attack probability; of two with the same closing
\* rate, the one with the larger gap never has the larger attack probability.
ThreatProbabilityMonotone ==
    \A p \in ThreatResults, q \in ThreatResults :
        /\ (Threat(p).gap_seconds = Threat(q).gap_seconds
                /\ Threat(p).closing_rate > Threat(q).closing_rate)
            => Threat(p).attack_probability >= Threat(q).attack_probability
        /\ (Threat(p).closing_rate = Threat(q).closing_rate
                /\ Threat(p).gap_seconds > Threat(q).gap_seconds)
            => Threat(p).attack_probability <= Threat(q).attack_probability

\* C4: every attack_probability of every threat result lies in [0, 1].
AttackProbabilityInUnitInterval ==
    \A p \in ThreatResults :
        Threat(p).attack_probability >= 0 /\ Threat(p).attack_probability <= 100000

AttackProbabilityWitness ==
    \E p \in ThreatResults : Threat(p).attack_probability = 65000 + 999 * 25

\* C13: the attack prediction covers the next 1-3 laps: the laps_until_attack
\* of every threat that carries one is 1, 2 or 3.
AttackWithinThreeLaps ==
    \A p \in ThreatResults : Threat(p).laps_until_attack \in {1, 2, 3}

\* C5: for every current_lap and total_laps with 0 <= current_lap <= total_laps,
\* current_lap < start_lap <= optimal_lap <= end_lap <= total_laps.
PitWindowOrdered ==
    IsPitWindow =>
        \A w \in 1..Len(response.recommended_windows) :
            /\ request.current_lap < response.recommended_windows[w].start_lap
            /\ response.recommended_windows[w].start_lap <= response.optimal_lap
            /\ response.optimal_lap <= response.recommended_windows[w].end_lap
            /\ response.recommended_windows[w].end_lap <= request.total_laps

\* the laps at which the fixed-interval heuristic resets the stint
ResetLaps == {r \in 0..MaxLap : r % StintInterval = 0}

\* C6: without a pit-stop signal the stint is reset every 15 laps and nothing
\* persists across a reset: no lap of the returned curve is at or before a reset
\* lap that precedes current_lap, and the degradation level of the lap right
\* after the last reset is the lowest level of the stint.
StintResetIsolation ==
    IsDegradation =>
        LET lap == request.current_lap
            lastReset == lap - (lap % StintInterval)
        IN  /\ \A j \in 1..Len(response.degradation_curve) :
                 /\ response.degradation_curve[j].lap <= lap
                 /\ \A r \in ResetLaps :
                        ~(response.degradation_curve[j].lap <= r /\ r < lap)
            /\ getSampleDegradation(request.car_id, lastReset).degradation_rate
                    <= response.degradation_rate
            /\ getSampleDegradation(request.car_id, lastReset + 1).degradation_rate
                    <= response.degradation_rate

StintResetWitness ==
    /\ IsDegradation
    /\ request.current_lap = 2 * StintInterval - 1
    /\ Len(response.degradation_curve) = CurveLength
    /\ response.degradation_curve[1].lap = StintInterval + 5
    /\ response.degradation_rate = StintInterval - 1

\* C11: a pace-forecast query with laps_ahead = n, 1 <= n <= 5, returns exactly
\* n predictions, for the laps current_lap+1 through current_lap+n.
ForecastHorizonHonoured ==
    IsForecast =>
        /\ Len(response.predictions) = request.laps_ahead
        /\ \A k \in 1..request.laps_ahead :
                k <= Len(response.predictions)
                    /\ response.predictions[k].lap_number = request.current_lap + k

\* the lap-over-lap delta series of the forecast held in response: each
\* predicted time against the lap before it, the first against current_pace
LapOverLapDelta(k) ==
    response.predictions[k].predicted_time
        - (IF k = 1 THEN response.current_pace
                    ELSE response.predictions[k - 1].predicted_time)

\* C12: the trend of a pace forecast is derived from its own lap-over-lap delta
\* series with a noise threshold of 0.05 s (500 units): it is "stable" exactly
\* when every delta stays within plus or minus 0.05 s, "degrading" only when
\* deltas are positive beyond the threshold, "improving" only when deltas are
\* negative beyond it.
TrendFollowsDeltas ==
    IsForecast =>
        LET deltas == {LapOverLapDelta(k) : k \in 1..Len(response.predictions)}
        IN  /\ response.trend \in {"improving", "stable", "degrading"}
            /\ response.trend = "stable" <=> \A x \in deltas : x >= -500 /\ x <= 500
            /\ response.trend = "degrading" => \E x \in deltas : x > 500
            /\ response.trend = "improving" => \E x \in deltas : x < -500

\* C14: by lap 10 of a stint the degradation result is classified "critical"
\* and reports an understeer (front-axle) cause with confidence greater than
\* 0.5.
CriticalUndersteerByLapTen ==
    (IsDegradation /\ request.current_lap % StintInterval = 10) =>
        /\ response.stint_health = "critical"
        /\ \E c \in 1..Len(response.primary_causes) :
                /\ response.primary_causes[c].cause_type = "understeer"
                /\ response.primary_causes[c].confidence > 500

\* a lap time between 90 and 95 seconds
InSampleLapTimeRange(t) == t >= 900000 /\ t <= 950000

\* C15: in sample mode every lap time produced lies between 90 and 95 seconds:
\* current_pace and every predicted_time of a pace forecast, and
\* current_lap_time, best_lap and average_lap of the current-pace result.
SampleLapTimesInRange ==
    /\ IsForecast =>
         /\ InSampleLapTimeRange(response.current_pace)
         /\ \A k \in 1..Len(response.predictions) :
                InSampleLapTimeRange(response.predictions[k].predicted_time)
    /\ Answered("getCurrentPace") =>
         /\ InSampleLapTimeRange(response.current_lap_time)
         /\ InSampleLapTimeRange(response.best_lap)
         /\ InSampleLapTimeRange(response.average_lap)

\* C7: the lap_number values of a pace forecast are current_lap+1, current_lap+2,
\* ... in order, and the lap values of a degradation curve are consecutive
\* integers in increasing order ending at current_lap.
LapIndicesGapless ==
    /\ IsForecast =>
         \A k \in 1..Len(response.predictions) :
            response.predictions[k].lap_number = request.current_lap + k
    /\ IsDegradation =>
         /\ Len(response.degradation_curve) >= 1
         /\ response.degradation_curve[Len(response.degradation_curve)].lap
                = request.current_lap
         /\ \A j \in 1..(Len(response.degradation_curve) - 1) :
                response.degradation_curve[j + 1].lap
                    = response.degradation_curve[j].lap + 1

LapIndicesWitness ==
    /\ IsForecast
    /\ request.current_lap = 12
    /\ response.predictions[1].lap_number = 13
    /\ response.predictions[ForecastLength].lap_number = 17

----------------------------------------------------------------------------
(* Properties of useWebSocket *)

\* C17: when the socket of the hook closes while reconnect is enabled and
\* disconnect() has not been called, a new connection attempt is eventually
\* made; this repeats after every such close.  (The attempts of one run are
\* capped at MaxSockets, so the last socket is left out.)
ReconnectFollowsClose ==
    \A n \in 1..(MaxSockets - 1) :
        (/\ Len(sockets) = n
         /\ wsCurrent = n
         /\ sockets[n].readyState = "CLOSED"
         /\ sockets[n].reconnect)
            ~> (Len(sockets) > n \/ wsCurrent # n)

ReconnectWitness ==
    /\ wsPhase = "active"
    /\ Len(sockets) = 3
    /\ sockets[1].readyState = "CLOSED"
    /\ sockets[2].readyState = "CLOSED"
    /\ sockets[2].via = "timer"
    /\ sockets[3].via = "timer"
    /\ wsCurrent = 3

\* C18: after disconnect() has been called (explicitly or by the unmount
\* cleanup) the instance never creates another WebSocket: no step taken while
\* it stays disconnected adds a socket.
NoSocketAfterDisconnect ==
    [][(wsPhase \in {"disconnected", "unmounted"}
            /\ wsPhase' \in {"disconnected", "unmounted"})
        => Len(sockets') = Len(sockets)]_vars

\* C19: at any time at most one WebSocket of the instance is live (connecting
\* or open).
AtMostOneLiveSocket ==
    Cardinality({s \in 1..Len(sockets) : Live(s)}) <= 1

\* socket s delivers its open or close event in this step
EventOf(s) ==
    /\ sockets'[s].readyState # sockets[s].readyState
    /\ sockets'[s].readyState \in {"OPEN", "CLOSED"}

\* C20: while the component is mounted, isConnected is true whenever the
\* socket referenced by ws.current is open, and an event of a socket that is
\* no longer the one referenced by ws.current never changes isConnected.
IsConnectedReflectsCurrent ==
    /\ []((wsPhase # "unmounted" /\ wsCurrent # 0
                /\ sockets[wsCurrent].readyState = "OPEN") => isConnected)
    /\ [][\A s \in 1..Len(sockets) :
            (EventOf(s) /\ s # wsCurrent) => isConnected' = isConnected]_vars

----------------------------------------------------------------------------
(* Properties of useRaceWebSocket *)

\* the hook calls close() on socket s in this step
NewlyClosing(s) ==
    /\ sockets[s].readyState \in {"CONNECTING", "OPEN"}
    /\ sockets'[s].readyState = "CLOSING"

\* C21: while vehicleId, raceId and enabled are unchanged, a re-render of the
\* mounted hook, caused by a received message or by a change of the connection
\* status, neither closes a WebSocket nor creates one: the hook closes no
\* socket, and the only new sockets are those of the reconnect timer.
RerenderKeepsSocket ==
    [][(wsPhase = "active" /\ wsPhase' = "active") =>
            /\ \A s \in DOMAIN sockets : ~NewlyClosing(s)
            /\ \A s \in DOMAIN sockets' \ DOMAIN sockets : sockets'[s].via = "timer"]_vars

\* a connection attempt or a scheduled reconnect is pending
AttemptPending ==
    \/ \E s \in DOMAIN sockets : sockets[s].readyState = "CONNECTING"
    \/ reconnectTimers # {}

\* C22: once effects have settled, connectionStatus is "connected" exactly
\* when isConnected is true, it is "connecting" only while a connection
\* attempt or a scheduled reconnect is pending, and after a socket of the
\* mounted hook has closed with enabled = false it settles at "disconnected".
ConnectionStatusTruthful ==
    (wsPhase = "active" /\ Settled) =>
        /\ connectionStatus = "connected" <=> isConnected
        /\ connectionStatus = "connecting" => AttemptPending
        /\ (~reconnectOption /\ lastEvent = "close") => connectionStatus = "disconnected"

\* with enabled = false two sockets have closed, the status is "disconnected"
\* and the socket of the last render is still connecting
ConnectionStatusWitness ==
    /\ wsPhase = "active"
    /\ ~reconnectOption
    /\ connectionStatus = "disconnected"
    /\ ~isConnected
    /\ Len(sockets) = 3
    /\ sockets[1].readyState = "CLOSED"
    /\ sockets[2].readyState = "CLOSED"
    /\ sockets[3].readyState = "CONNECTING"

----------------------------------------------------------------------------
(* Properties of the data hooks *)

\* a request of hook h fails in this step
FailsIn(h) == failed' = failed + 1 /\ pending'[h] # pending[h]

\* a request of hook h succeeds in this step
SucceedsIn(h) == failed' = failed /\ pending'[h] # pending[h] /\ issued'[h] = issued[h]

LoadingWhileInFlight ==
    \A h \in Hooks : hook[h].loading <=> pending[h] # {}

\* every change of the race state makes each data hook issue a new query
QueriesFollowRaceState ==
    [][raceState' # raceState => \A h \in Hooks : issued'[h] = issued[h] + 1]_vars

\* once the queries of a hook have all completed, none of them failing since the
\* last one was issued, the data of the hook is the response to the last one
DataIsLatestResponse ==
    \A h \in Hooks :
        (issued[h] > 0 /\ pending[h] = {} /\ hook[h].error = NoError) =>
            (hook[h].data # Null /\ hook[h].data.query = issued[h])

\* C10: every change of the race state makes each data hook issue a new query,
\* and once all in-flight queries of a hook have completed the data the hook
\* holds is the response to its most recently issued query, whatever order the
\* responses arrive in.
RecomputedFromCurrentState == QueriesFollowRaceState /\ []DataIsLatestResponse

====
